---- MODULE Spec2Model ----
(***************************************************************************)
(* A model of the notebook bilby_tutorial.ipynb: its two model functions,  *)
(* its CustomGaussianLikelihood class, and the in-order execution of its   *)
(* code cells (data generation, the three sampler runs, the posterior      *)
(* reads and the Bayes factor).                                            *)
(*                                                                         *)
(* Numbers are exact rationals [n |-> numerator, d |-> denominator]; a     *)
(* numpy array is [arr |-> <<...>>]; the result of np.sqrt is kept as the  *)
(* surd [rad |-> radicand], whose square is the radicand.                  *)
(***************************************************************************)
EXTENDS Integers, Sequences, FiniteSets, TLC

VARIABLES
    pc,            \* index of the next code cell to run (document order)
    bound,         \* the notebook-level names bound so far
    x, y, y_errs, noise, data,          \* the fake data set
    likelihood, priors, parameters,     \* the inputs of the next sampler run
    result, result_quad, result_line,   \* result objects
    a_vals, b_vals, c_vals, sigmas,     \* posterior columns read back
    lnZ_line, lnZ_quad, lnBF,           \* the model comparison
    truths, summary,                    \* plot_corner's truths; the *_result summaries
    xfit, med_model, instance, fig,     \* the posterior-predictive plot
    error,         \* "none", or the exception that stopped the run
    files,         \* the result files on disk, by their path
    calls,         \* history: the arguments and result of every run_sampler call
    reads,         \* history: every posterior column / summary key asked for
    args, ret      \* a direct call of a function or method: its inputs, its return

dataVars == <<x, y, y_errs, noise, data>>
setupVars == <<likelihood, priors, parameters>>
resultVars == <<result, result_quad, result_line>>
columnVars == <<a_vals, b_vals, c_vals, sigmas>>
bayesVars == <<lnZ_line, lnZ_quad, lnBF>>
histVars == <<files, calls, reads>>
plotVars == <<xfit, med_model, instance, fig>>
miscVars == <<truths, summary>>
notebookVars ==
    <<pc, error, bound, dataVars, setupVars, resultVars, columnVars, plotVars, miscVars,
      bayesVars, histVars>>
harnessVars == <<args, ret>>
vars == <<notebookVars, harnessVars>>

\* Python's None, and a name or attribute that has not been assigned yet.
None == [none |-> TRUE]
IsNone(v) == "none" \in DOMAIN v
Unset == [unset |-> TRUE]

(***************************************************************************)
(* Exact arithmetic                                                        *)
(***************************************************************************)
Abs(k) == IF k < 0 THEN -k ELSE k

RECURSIVE GCD(_, _)
GCD(p, q) == IF q = 0 THEN p ELSE GCD(q, p % q)

\* The rational p/q in lowest terms with a positive denominator; q = 0 is
\* the outcome of a division by zero (numpy's inf / nan).
NaN == [n |-> 0, d |-> 0]
Rat(p, q) ==
    IF q = 0 THEN NaN
    ELSE LET g == GCD(Abs(p), Abs(q))
             s == IF q < 0 THEN -1 ELSE 1
         IN  [n |-> s * (p \div g), d |-> s * (q \div g)]
RInt(k) == [n |-> k, d |-> 1]

IsNaN(u) == u.d = 0
RAdd(u, v) == IF IsNaN(u) \/ IsNaN(v) THEN NaN ELSE Rat(u.n * v.d + v.n * u.d, u.d * v.d)
RNeg(u) == IF IsNaN(u) THEN NaN ELSE [n |-> -u.n, d |-> u.d]
RSub(u, v) == RAdd(u, RNeg(v))
RMul(u, v) == IF IsNaN(u) \/ IsNaN(v) THEN NaN ELSE Rat(u.n * v.n, u.d * v.d)
RDiv(u, v) == IF IsNaN(u) \/ IsNaN(v) THEN NaN ELSE Rat(u.n * v.d, u.d * v.n)
RLess(u, v) == u.n * v.d < v.n * u.d
RLeq(u, v) == u.n * v.d <= v.n * u.d

\* np.sqrt of a scalar, and ** on a scalar: the square of a surd is its
\* radicand, of a rational the product with itself.
IsSurd(u) == "rad" \in DOMAIN u
RSqrt(u) == [rad |-> u]
RECURSIVE RPow(_, _)
RPow(u, k) ==
    IF IsSurd(u) THEN (IF k = 2 THEN u.rad ELSE NaN)
    ELSE IF k = 0 THEN RInt(1) ELSE RMul(u, RPow(u, k - 1))

(***************************************************************************)
(* numpy's element-wise operations with scalar broadcasting                *)
(***************************************************************************)
IsArr(u) == "arr" \in DOMAIN u
Arr(s) == [arr |-> s]
Size(u) == Len(u.arr)

\* One scalar operation, by its Python operator.
Scalar(op, u, v) ==
    CASE op = "+" -> RAdd(u, v)
      [] op = "-" -> RSub(u, v)
      [] op = "*" -> RMul(u, v)
      [] op = "/" -> RDiv(u, v)

\* array op array is element by element; array op scalar and scalar op array
\* broadcast the scalar.
Broadcast(op, u, v) ==
    IF IsArr(u) /\ IsArr(v) THEN Arr([i \in 1..Size(u) |-> Scalar(op, u.arr[i], v.arr[i])])
    ELSE IF IsArr(u) THEN Arr([i \in 1..Size(u) |-> Scalar(op, u.arr[i], v)])
    ELSE IF IsArr(v) THEN Arr([i \in 1..Size(v) |-> Scalar(op, u, v.arr[i])])
    ELSE Scalar(op, u, v)

NpAdd(u, v) == Broadcast("+", u, v)
NpSub(u, v) == Broadcast("-", u, v)
NpMul(u, v) == Broadcast("*", u, v)
NpDiv(u, v) == Broadcast("/", u, v)
NpNeg(u) == IF IsArr(u) THEN Arr([i \in 1..Size(u) |-> RNeg(u.arr[i])]) ELSE RNeg(u)
NpPow(u, k) == IF IsArr(u) THEN Arr([i \in 1..Size(u) |-> RPow(u.arr[i], k)]) ELSE RPow(u, k)
NpSqrt(u) == IF IsArr(u) THEN Arr([i \in 1..Size(u) |-> RSqrt(u.arr[i])]) ELSE RSqrt(u)

RECURSIVE SumTo(_, _)
SumTo(s, k) == IF k = 0 THEN RInt(0) ELSE RAdd(SumTo(s, k - 1), s[k])
NpSum(u) == SumTo(u.arr, Size(u))

\* np.linspace(start, stop, num): num samples, endpoint included.
linspace(start, stop, num) ==
    LET step == RDiv(RSub(stop, start), RInt(num - 1))
    IN  Arr([i \in 1..num |-> RAdd(start, RMul(RInt(i - 1), step))])

(***************************************************************************)
(* The two model functions                                                 *)
(***************************************************************************)
line_noOffset(x0, a, c) == NpMul(a, x0)
\* def line(x, a, c): return (a * x) + c
line(x0, a, c) == NpAdd(NpMul(a, x0), c)

quadratic_linearTerm(x0, a, b, c) == NpAdd(NpAdd(NpMul(a, x0), NpMul(b, x0)), c)
\* def quadratic(x, a, b, c): return (a * x**2) + (b * x) + c
quadratic(x0, a, b, c) == NpAdd(NpAdd(NpMul(a, NpPow(x0, 2)), NpMul(b, x0)), c)

(***************************************************************************)
(* class CustomGaussianLikelihood(bilby.likelihood.Likelihood)             *)
(***************************************************************************)
\* __init__: the object keeps references to its five arguments; sigma, model
\* and residual do not exist until log_likelihood first runs.
CustomGaussianLikelihood(x0, y0, y_err0, func0, parameters0) ==
    [cls |-> "CustomGaussianLikelihood",
     x |-> x0, y |-> y0, y_err |-> y_err0, func |-> func0, parameters |-> parameters0,
     sigma |-> Unset, model |-> Unset, residual |-> Unset]

\* self.func(self.x, a, c): the call through the stored function reference.
CallFunc(func, x0, a, c) == IF func = "line" THEN line(x0, a, c) ELSE Unset

\* self.sigma = np.sqrt((self.y_err**2) + (self.parameters["sigma"]**2))
Sigma_noSquare(self) == NpSqrt(NpAdd(NpPow(self.y_err, 2), self.parameters["sigma"]))
Sigma(self) == NpSqrt(NpAdd(NpPow(self.y_err, 2), NpPow(self.parameters["sigma"], 2)))

Model_firstX(self) ==
    CallFunc(self.func, self.x.arr[1], self.parameters["a"], self.parameters["c"])
\* self.model = self.func(self.x, self.parameters["a"], self.parameters["c"])
Model(self) == CallFunc(self.func, self.x, self.parameters["a"], self.parameters["c"])

\* self.residual = (self.y - self.model)**2
Residual(self, model) == NpPow(NpSub(self.y, model), 2)

\* np.sum(- (residual / (2 * sigma**2)) - np.log(2 * np.pi * sigma**2) / 2),
\* kept symbolic in the logarithms: quad is the sum of the rational parts and
\* logs[i] is the i-th term's coef * ln(pi * arg).
LnLike(sigma, residual) ==
    LET var == NpPow(sigma, 2)
        quad == NpNeg(NpDiv(residual, NpMul(RInt(2), var)))
        larg == NpMul(RInt(2), var)
    IN  [quad |-> NpSum(quad),
         logs |-> [i \in 1..Size(larg) |-> [coef |-> Rat(-1, 2), arg |-> larg.arr[i]]]]

\* parameters[...]**2 and a * x raise TypeError while a parameter is None.
ParametersSet(self) == \A k \in DOMAIN self.parameters : ~IsNone(self.parameters[k])

Evaluated_inPlace(self) ==
    LET model == Model(self)
    IN  [self EXCEPT !.sigma = Sigma(self), !.model = model,
                     !.residual = Residual(self, model), !.y = NpSub(self.y, model)]
\* The object after log_likelihood(self): the three attributes it assigns.
Evaluated(self) ==
    LET model == Model(self)
    IN  [self EXCEPT !.sigma = Sigma(self), !.model = model, !.residual = Residual(self, model)]

\* log_likelihood(self): the object after the call, and the value returned.
log_likelihood(self) ==
    LET after == Evaluated(self)
    IN  [self |-> after, val |-> LnLike(after.sigma, after.residual)]

(***************************************************************************)
(* What the notebook uses of numpy.random and bilby                        *)
(***************************************************************************)
\* n = 10
n == 10
\* range(0, 25): the number of posterior rows every plot loop reads
NDraws == 25

\* Bounds of the model.
MaxStream == 2     \* the streams the seeded generator may produce
MaxLnZ == 1        \* log-evidences range over -MaxLnZ..MaxLnZ
MaxChain == 2      \* the chains a sampler run may end with
MaxArg == 2        \* direct calls of line / quadratic take integers -MaxArg..MaxArg
MaxErr == 2        \* direct log_likelihood calls: formal errors 0..MaxErr
MaxSig == 1        \* direct log_likelihood calls: sigma in -MaxSig..MaxSig
HarnessPoints == 2 \* direct log_likelihood calls: number of data points

\* The j-th number of stream s of the generator after np.random.seed(123):
\* a value in [0, 1). The generator itself is numpy's; the model only fixes
\* that one seeded stream feeds every draw in order.
Draw(s, j) == Rat((7 * s * j + 3 * s + j * j) % 10, 10)
\* np.random.rand(k), taking draws first+1 .. first+k of the stream
rand(s, first, k) == Arr([i \in 1..k |-> Draw(s, first + i)])
\* np.random.uniform(low, high, k)
uniform(s, first, low, high, k) ==
    NpAdd(low, NpMul(RSub(high, low), rand(s, first, k)))

\* A Python dict as a function on its keys.
EmptyDict == [k \in {} |-> Unset]
SetItem(dict, key, val) ==
    [k \in (DOMAIN dict) \cup {key} |-> IF k = key THEN val ELSE dict[k]]

\* bilby.prior.Uniform(minimum, maximum, name)
Uniform(minimum, maximum, name) ==
    [minimum |-> RInt(minimum), maximum |-> RInt(maximum), name |-> name]

\* The signature of a model function: the independent variable first, then
\* the named parameters.
Signature(func) ==
    IF func = "line" THEN <<"x", "a", "c">> ELSE <<"x", "a", "b", "c">>
ModelParameters(func) == {Signature(func)[i] : i \in 2..Len(Signature(func))}
CallModel(func, x0, p) ==
    IF func = "line" THEN line(x0, p["a"], p["c"])
    ELSE quadratic(x0, p["a"], p["b"], p["c"])

\* bilby.likelihood.GaussianLikelihood(x=, y=, func=, sigma=): the parameters
\* are the arguments of func after the first, all None until sampled.
GaussianLikelihood(x0, y0, func0, sigma0) ==
    [cls |-> "GaussianLikelihood", x |-> x0, y |-> y0, func |-> func0, sigma |-> sigma0,
     parameters |-> [k \in ModelParameters(func0) |-> None]]

\* The keys of self.parameters that log_likelihood evaluates.
CustomReadKeys == {"sigma", "a", "c"}
EvaluatedParameters(L) ==
    IF L.cls = "CustomGaussianLikelihood" THEN CustomReadKeys ELSE ModelParameters(L.func)

\* Row i of column key of chain c, a value inside the prior's support.
KeyOffset(key) == IF key = "a" THEN 0 ELSE IF key = "b" THEN 1 ELSE IF key = "c" THEN 2 ELSE 3
Sample(c, key, i, prior) ==
    RAdd(prior.minimum,
         RMul(RSub(prior.maximum, prior.minimum),
              Rat((i * (c + 1) + KeyOffset(key) + i * i * c) % 13, 13)))
ChainRows(c) == NDraws - 2 + c

\* The result file run_sampler writes, and the file a path opens.
ResultFile(outdir, label) == outdir \o "/" \o label \o "_result.json"
Opens(path, stored) == path = stored \/ path = "./" \o stored

\* The result object of a sampler run.
Result(label, outdir, prs, lnZ, c) ==
    [label |-> label, outdir |-> outdir, priors |-> prs,
     search_parameter_keys |-> DOMAIN prs,
     log_evidence |-> RInt(lnZ), chain |-> c, nrows |-> ChainRows(c)]

\* result.posterior: its columns, and the values of one column.
Columns(res) == res.search_parameter_keys \cup {"log_likelihood", "log_prior"}
PosteriorValues(res, key) ==
    Arr([i \in 1..res.nrows |-> Sample(res.chain, key, i, res.priors[key])])

\* The likelihood object after the run: the sampler leaves the last point it
\* evaluated in parameters (and, for the custom class, what log_likelihood
\* stored for it).
LastPoint(res) == [k \in res.search_parameter_keys |-> Sample(res.chain, k, 1, res.priors[k])]
AfterSampling(L, res) ==
    LET set == [L EXCEPT !.parameters =
                   [k \in DOMAIN L.parameters |->
                       IF k \in DOMAIN LastPoint(res) THEN LastPoint(res)[k] ELSE L.parameters[k]]]
    IN  IF L.cls = "CustomGaussianLikelihood" /\ ParametersSet(set)
        THEN Evaluated(set) ELSE set

\* np.median: the middle value of the sorted array, or the mean of the two
\* middle values when the size is even.
Kth(s, k) ==
    CHOOSE v \in {s[i] : i \in 1..Len(s)} :
        /\ Cardinality({j \in 1..Len(s) : RLess(s[j], v)}) < k
        /\ Cardinality({j \in 1..Len(s) : RLeq(s[j], v)}) >= k
median(u) ==
    LET m == Size(u)
    IN  IF m % 2 = 1 THEN Kth(u.arr, (m + 1) \div 2)
        ELSE RDiv(RAdd(Kth(u.arr, m \div 2), Kth(u.arr, m \div 2 + 1)), RInt(2))

(***************************************************************************)
(* The notebook, run cell by cell in document order                        *)
(***************************************************************************)
\* No direct call has been made.
NoCall == [fn |-> "none"]

\* A fresh kernel: nothing bound, no file written.
Fresh ==
    /\ error = "none" /\ bound = {}
    /\ x = Unset /\ y = Unset /\ y_errs = Unset /\ noise = Unset /\ data = Unset
    /\ priors = Unset
    /\ result = Unset /\ result_quad = Unset /\ result_line = Unset
    /\ a_vals = Unset /\ b_vals = Unset /\ c_vals = Unset /\ sigmas = Unset
    /\ xfit = Unset /\ med_model = Unset /\ instance = Unset /\ fig = Unset
    /\ truths = Unset /\ summary = EmptyDict
    /\ lnZ_line = Unset /\ lnZ_quad = Unset /\ lnBF = Unset
    /\ files = EmptyDict /\ calls = <<>> /\ reads = <<>>

Init ==
    /\ pc = 1 /\ Fresh
    /\ likelihood = Unset /\ parameters = Unset
    /\ args = Unset /\ ret = NoCall

\* The cell at position k is next, and no earlier cell raised.
At(k) == pc = k /\ error = "none"
\* The cell ran to its end, binding the names in names.
Done(names) == pc' = pc + 1 /\ error' = error /\ bound' = bound \cup names
\* The cell raised e: the run stops at this cell.
Raised(e, names) == pc' = pc /\ error' = e /\ bound' = bound \cup names

\* import numpy as np / import matplotlib.pyplot as plt
ImportNumpy ==
    /\ At(1) /\ Done({"np", "plt"})
    /\ UNCHANGED <<dataVars, setupVars, resultVars, columnVars, plotVars, miscVars,
                   bayesVars, histVars, harnessVars>>

\* import bilby
ImportBilby ==
    /\ At(2) /\ Done({"bilby"})
    /\ UNCHANGED <<dataVars, setupVars, resultVars, columnVars, plotVars, miscVars,
                   bayesVars, histVars, harnessVars>>

\* The help cells (bilby?, GaussianLikelihood?, run_sampler?) and the empty
\* last cell bind nothing.
HelpCells == {3, 6, 9, 31}
HelpCell ==
    /\ pc \in HelpCells /\ error = "none" /\ Done({})
    /\ UNCHANGED <<dataVars, setupVars, resultVars, columnVars, plotVars, miscVars,
                   bayesVars, histVars, harnessVars>>

\* def line(x, a, c)
DefLine ==
    /\ At(4) /\ Done({"line"})
    /\ UNCHANGED <<dataVars, setupVars, resultVars, columnVars, plotVars, miscVars,
                   bayesVars, histVars, harnessVars>>

\* x = np.linspace(-10, 10, n)
FakeX == linspace(RInt(-10), RInt(10), n)
FakeY_swapped(x0) == line(x0, RInt(1), Rat(1, 2))
\* y = line(x, 0.5, 1)
FakeY(x0) == line(x0, Rat(1, 2), RInt(1))
\* y_errs = 0.1 + 1.0 * np.random.rand(n)
FakeErrs(s) == NpAdd(Rat(1, 10), NpMul(RInt(1), rand(s, 0, n)))
\* noise = np.random.uniform(-1.5, 1.5, n)
FakeNoise(s) == uniform(s, n, Rat(-3, 2), Rat(3, 2), n)
\* data = y + noise
FakeData(y0, noise0) == NpAdd(y0, noise0)

\* The data cell: seeds the generator, builds the five arrays and plots them.
MakeFakeData ==
    /\ At(5)
    /\ \E s \in 1..MaxStream :
          /\ x' = FakeX
          /\ y' = FakeY(x')
          /\ y_errs' = FakeErrs(s)
          /\ noise' = FakeNoise(s)
          /\ data' = FakeData(y', noise')
    /\ fig' = [errorbar |-> [x |-> x', y |-> data', yerr |-> y_errs'],
               curves |-> <<>>, truth |-> [x |-> x', y |-> y']]
    /\ Done({"n", "x", "y", "y_errs", "noise", "data"})
    /\ UNCHANGED <<setupVars, resultVars, columnVars, xfit, med_model, instance, miscVars,
                   bayesVars, histVars, harnessVars>>

\* The labels and the output directory of the three runs, and the path read back.
OutDir == "output"
Ex1Label == "line_test"
Ex2Label == "custom_priors"
Ex3Label_reused == "line_test"
Ex3Label == "quadratic_test"
ReadPath == "./output/line_test_result.json"

\* bilby.run_sampler(likelihood=, priors=, sampler="dynesty", nlive=512, label=,
\* outdir=), ending with chain c and log-evidence lnZ: the result object.
run_sampler(L, prs, label, outdir, lnZ, c) == Result(label, outdir, prs, lnZ, c)

\* Everything a run_sampler call changes besides the name its result is bound
\* to: the result file is written, the likelihood object keeps the last point
\* evaluated (parameters is the same dict object as the custom likelihood's),
\* and the call is recorded.
Sampled(res) ==
    /\ files' = SetItem(files, ResultFile(res.outdir, res.label), res)
    /\ likelihood' = AfterSampling(likelihood, res)
    /\ parameters' = IF likelihood.cls = "CustomGaussianLikelihood"
                      THEN likelihood'.parameters ELSE parameters
    /\ priors' = priors
    /\ calls' = Append(calls, [cell |-> pc, likelihood |-> likelihood, priors |-> priors,
                                label |-> res.label, outdir |-> res.outdir, result |-> res])
    /\ reads' = reads

\* A read of result.posterior[key], result.get_one_dimensional_median_and_error_bar(key)
\* or a plot_corner parameter, as recorded in reads.
Read(kind, res, key) ==
    [cell |-> pc, kind |-> kind, label |-> res.label, key |-> key,
     keys |-> res.search_parameter_keys]
ReadAll(kind, res, keyseq) == [i \in 1..Len(keyseq) |-> Read(kind, res, keyseq[i])]
\* Reading the keys of keyseq one statement after the other: how many reads
\* succeed before the first key that is no column (a KeyError), and the reads
\* that were asked for, the failing one included.
Present(res, keyseq) ==
    CHOOSE k \in 0..Len(keyseq) :
        /\ \A i \in 1..k : keyseq[i] \in Columns(res)
        /\ k < Len(keyseq) => keyseq[k + 1] \notin Columns(res)
Asked(kind, res, keyseq) ==
    LET k == Present(res, keyseq)
    IN  ReadAll(kind, res, SubSeq(keyseq, 1, IF k < Len(keyseq) THEN k + 1 ELSE k))
AllPresent(res, keyseq) == Present(res, keyseq) = Len(keyseq)
\* The names among names (one per key) assigned before the first KeyError.
Assigned(res, keyseq, names) == {names[i] : i \in 1..Present(res, keyseq)}
Finish(res, keyseq, names) ==
    IF AllPresent(res, keyseq) THEN Done(Assigned(res, keyseq, names))
    ELSE Raised("KeyError", Assigned(res, keyseq, names))
\* The value a name has after the statements: column i if its read succeeded.
Column(res, keyseq, i, old) ==
    IF i <= Present(res, keyseq) THEN PosteriorValues(res, keyseq[i]) ELSE old

\* result.get_one_dimensional_median_and_error_bar(key), its median field.
median_and_error_bar(res, key) == [key |-> key, median |-> median(PosteriorValues(res, key))]

\* likelihood = bilby.likelihood.GaussianLikelihood(x=x, y=data, func=line, sigma=y_errs)
Ex1NewLikelihood == GaussianLikelihood(x, data, "line", y_errs)
Ex1Likelihood ==
    /\ At(7) /\ Done({"likelihood"})
    /\ likelihood' = Ex1NewLikelihood
    /\ UNCHANGED <<dataVars, priors, parameters, resultVars, columnVars, plotVars, miscVars,
                   bayesVars, histVars, harnessVars>>

\* priors = dict(); priors["a"] = Uniform(0, 1, "a"); priors["c"] = Uniform(0, 4, "c")
Ex1NewPriors(old) ==
    SetItem(SetItem(EmptyDict, "a", Uniform(0, 1, "a")), "c", Uniform(0, 4, "c"))
Ex1Priors ==
    /\ At(8) /\ Done({"priors"})
    /\ priors' = Ex1NewPriors(priors)
    /\ UNCHANGED <<dataVars, likelihood, parameters, resultVars, columnVars, plotVars,
                   miscVars, bayesVars, histVars, harnessVars>>

\* result = bilby.run_sampler(..., label="line_test", outdir="output")
Ex1RunSampler ==
    /\ At(10) /\ Done({"result"})
    /\ \E lnZ \in -MaxLnZ..MaxLnZ, c \in 1..MaxChain :
          /\ result' = run_sampler(likelihood, priors, Ex1Label, OutDir, lnZ, c)
          /\ Sampled(result')
    /\ UNCHANGED <<dataVars, result_quad, result_line, columnVars, plotVars, miscVars,
                   bayesVars, harnessVars>>

\* truths = dict(a=0.5, c=1.0); result.plot_corner(truths=truths, dpi=150):
\* the corner plot shows the parameters named by truths.
Ex1TruthKeys == <<"a", "c">>
Ex1PlotCorner ==
    /\ At(11)
    /\ truths' = [a |-> Rat(1, 2), c |-> RInt(1)]
    /\ reads' = reads \o Asked("plot_corner", result, Ex1TruthKeys)
    /\ IF AllPresent(result, Ex1TruthKeys) THEN Done({"truths"}) ELSE Raised("KeyError", {"truths"})
    /\ UNCHANGED <<dataVars, setupVars, resultVars, columnVars, plotVars, summary,
                   bayesVars, files, calls, harnessVars>>

\* a_vals = result.posterior["a"].values; c_vals = result.posterior["c"].values
Ex1Columns_b == <<"a", "b">>
Ex1Columns == <<"a", "c">>
Ex1ExtractPosterior ==
    /\ At(12)
    /\ a_vals' = Column(result, Ex1Columns, 1, a_vals)
    /\ c_vals' = Column(result, Ex1Columns, 2, c_vals)
    /\ reads' = reads \o Asked("posterior", result, Ex1Columns)
    /\ Finish(result, Ex1Columns, <<"a_vals", "c_vals">>)
    /\ UNCHANGED <<dataVars, setupVars, resultVars, b_vals, sigmas, plotVars, miscVars,
                   bayesVars, files, calls, harnessVars>>

\* The posterior-predictive cell of each example:
\*   xfit = np.linspace(-12, 12, 32)
\*   med_model = func(xfit, np.median(...), ...)
\*   plt.errorbar(x, data, yerr=yerr, fmt="o")
\*   for i in range(0, 25): instance = func(xfit, a_vals[i], ...); plt.plot(xfit, instance)
\*   plt.plot(xfit, med_model); plt.plot(x, y)
\* cols maps each parameter of func to the array read for it. Indexing row i
\* of an array with fewer than i + 1 rows raises IndexError and ends the cell.
Min(S) == CHOOSE m \in S : \A k \in S : m <= k
RowsDrawn(cols) == Min({NDraws} \cup {Size(cols[k]) : k \in DOMAIN cols})
Row_firstC(cols, i) == [k \in DOMAIN cols |-> cols[k].arr[IF k = "c" THEN 1 ELSE i]]
Row(cols, i) == [k \in DOMAIN cols |-> cols[k].arr[i]]
PlotFit(func, cols, yerr) ==
    LET m == RowsDrawn(cols)
        names == {"xfit", "med_model"} \cup (IF m > 0 THEN {"i", "instance"} ELSE {"i"})
        bars == [x |-> x, y |-> data, yerr |-> yerr]
        drawn == [i \in 1..m |-> Row(cols, i)]
    IN  /\ xfit' = linspace(RInt(-12), RInt(12), 32)
        /\ med_model' = CallModel(func, xfit', [k \in DOMAIN cols |-> median(cols[k])])
        /\ instance' = IF m > 0 THEN CallModel(func, xfit', Row(cols, m)) ELSE instance
        /\ IF m = NDraws
           THEN /\ fig' = [errorbar |-> bars, curves |-> drawn,
                           median |-> med_model', truth |-> [x |-> x, y |-> y]]
                /\ Done(names)
           ELSE /\ fig' = [errorbar |-> bars, curves |-> drawn]
                /\ Raised("IndexError", names)

Ex1PlotFit ==
    /\ At(13)
    /\ PlotFit("line", [a |-> a_vals, c |-> c_vals], y_errs)
    /\ UNCHANGED <<dataVars, setupVars, resultVars, columnVars, miscVars, bayesVars,
                   histVars, harnessVars>>

\* The *_result summaries of a result, one statement per key.
Summaries(res, keyseq, names, old) ==
    [nm \in (DOMAIN old) \cup Assigned(res, keyseq, names) |->
        IF \E i \in 1..Present(res, keyseq) : names[i] = nm
        THEN median_and_error_bar(res, keyseq[CHOOSE i \in 1..Present(res, keyseq) : names[i] = nm])
        ELSE old[nm]]

\* a_result = result.get_one_dimensional_median_and_error_bar("a"); c_result = ...("c")
Ex1SummaryKeys == <<"a", "c">>
Ex1Summary ==
    /\ At(14)
    /\ summary' = Summaries(result, Ex1SummaryKeys, <<"a_result", "c_result">>, summary)
    /\ reads' = reads \o Asked("summary", result, Ex1SummaryKeys)
    /\ Finish(result, Ex1SummaryKeys, <<"a_result", "c_result">>)
    /\ UNCHANGED <<dataVars, setupVars, resultVars, columnVars, plotVars, truths,
                   bayesVars, files, calls, harnessVars>>

\* class CustomGaussianLikelihood(bilby.likelihood.Likelihood): ...
DefCustomGaussianLikelihood ==
    /\ At(15) /\ Done({"CustomGaussianLikelihood"})
    /\ UNCHANGED <<dataVars, setupVars, resultVars, columnVars, plotVars, miscVars,
                   bayesVars, histVars, harnessVars>>

\* parameters = dict(a=None, c=None, sigma=None)
Ex2Parameters == [a |-> None, c |-> None, sigma |-> None]
\* likelihood = CustomGaussianLikelihood(x=x, y=y, y_err=y_errs, func=line, parameters=parameters)
Ex2NewLikelihood(params) == CustomGaussianLikelihood(x, y, y_errs, "line", params)
\* priors = dict(); priors["a"] = ...; priors["c"] = ...; priors["sigma"] = Uniform(0, 1, "sigma")
Ex2NewPriors(old) ==
    SetItem(SetItem(SetItem(EmptyDict, "a", Uniform(0, 1, "a")), "c", Uniform(0, 4, "c")),
            "sigma", Uniform(0, 1, "sigma"))
Ex2Setup ==
    /\ At(16) /\ Done({"parameters", "likelihood", "priors"})
    /\ parameters' = Ex2Parameters
    /\ likelihood' = Ex2NewLikelihood(parameters')
    /\ priors' = Ex2NewPriors(priors)
    /\ UNCHANGED <<dataVars, resultVars, columnVars, plotVars, miscVars, bayesVars,
                   histVars, harnessVars>>

\* result = bilby.run_sampler(..., label="custom_priors", outdir="output")
Ex2RunSampler ==
    /\ At(17) /\ Done({"result"})
    /\ \E lnZ \in -MaxLnZ..MaxLnZ, c \in 1..MaxChain :
          /\ result' = run_sampler(likelihood, priors, Ex2Label, OutDir, lnZ, c)
          /\ Sampled(result')
    /\ UNCHANGED <<dataVars, result_quad, result_line, columnVars, plotVars, miscVars,
                   bayesVars, harnessVars>>

\* truths = dict(a=0.5, c=1.0, sigma=None); result.plot_corner(truths=truths, dpi=150)
Ex2TruthKeys == <<"a", "c", "sigma">>
Ex2PlotCorner ==
    /\ At(18)
    /\ truths' = [a |-> Rat(1, 2), c |-> RInt(1), sigma |-> None]
    /\ reads' = reads \o Asked("plot_corner", result, Ex2TruthKeys)
    /\ IF AllPresent(result, Ex2TruthKeys) THEN Done({"truths"}) ELSE Raised("KeyError", {"truths"})
    /\ UNCHANGED <<dataVars, setupVars, resultVars, columnVars, plotVars, summary,
                   bayesVars, files, calls, harnessVars>>

\* a_vals = result.posterior["a"].values; c_vals = ...["c"]...; sigmas = ...["sigma"]...
Ex2Columns == <<"a", "c", "sigma">>
Ex2ExtractPosterior ==
    /\ At(19)
    /\ a_vals' = Column(result, Ex2Columns, 1, a_vals)
    /\ c_vals' = Column(result, Ex2Columns, 2, c_vals)
    /\ sigmas' = Column(result, Ex2Columns, 3, sigmas)
    /\ reads' = reads \o Asked("posterior", result, Ex2Columns)
    /\ Finish(result, Ex2Columns, <<"a_vals", "c_vals", "sigmas">>)
    /\ UNCHANGED <<dataVars, setupVars, resultVars, b_vals, plotVars, miscVars,
                   bayesVars, files, calls, harnessVars>>

\* yerr=np.sqrt(y_errs**2 + np.median(sigmas**2))
Ex2ErrorBars == NpSqrt(NpAdd(NpPow(y_errs, 2), median(NpPow(sigmas, 2))))
Ex2PlotFit ==
    /\ At(20)
    /\ PlotFit("line", [a |-> a_vals, c |-> c_vals], Ex2ErrorBars)
    /\ UNCHANGED <<dataVars, setupVars, resultVars, columnVars, miscVars, bayesVars,
                   histVars, harnessVars>>

\* a_result, c_result, sigma_result = result.get_one_dimensional_median_and_error_bar(...)
Ex2SummaryKeys == <<"a", "c", "sigma">>
Ex2Summary ==
    /\ At(21)
    /\ summary' = Summaries(result, Ex2SummaryKeys, <<"a_result", "c_result", "sigma_result">>,
                            summary)
    /\ reads' = reads \o Asked("summary", result, Ex2SummaryKeys)
    /\ Finish(result, Ex2SummaryKeys, <<"a_result", "c_result", "sigma_result">>)
    /\ UNCHANGED <<dataVars, setupVars, resultVars, columnVars, plotVars, truths,
                   bayesVars, files, calls, harnessVars>>

DefQuadratic_otherName ==
    /\ At(22) /\ Done({"quad"})
    /\ UNCHANGED <<dataVars, setupVars, resultVars, columnVars, plotVars, miscVars,
                   bayesVars, histVars, harnessVars>>
\* def quadratic(x, a, b, c)
DefQuadratic ==
    /\ At(22) /\ Done({"quadratic"})
    /\ UNCHANGED <<dataVars, setupVars, resultVars, columnVars, plotVars, miscVars,
                   bayesVars, histVars, harnessVars>>

\* likelihood = bilby.likelihood.GaussianLikelihood(x=x, y=data, func=quadratic, sigma=y_errs)
Ex3NewLikelihood_truth == GaussianLikelihood(x, y, "quadratic", y_errs)
Ex3NewLikelihood == GaussianLikelihood(x, data, "quadratic", y_errs)
\* priors = dict(); priors["a"], priors["b"], priors["c"] = Uniform(-2, 2, ...)
Ex3NewPriors_noReset(old) ==
    SetItem(SetItem(SetItem(old, "a", Uniform(-2, 2, "a")), "b", Uniform(-2, 2, "b")),
            "c", Uniform(-2, 2, "c"))
Ex3NewPriors(old) ==
    SetItem(SetItem(SetItem(EmptyDict, "a", Uniform(-2, 2, "a")), "b", Uniform(-2, 2, "b")),
            "c", Uniform(-2, 2, "c"))
Ex3Setup ==
    /\ At(23) /\ Done({"likelihood", "priors"})
    /\ likelihood' = Ex3NewLikelihood
    /\ priors' = Ex3NewPriors(priors)
    /\ UNCHANGED <<dataVars, parameters, resultVars, columnVars, plotVars, miscVars,
                   bayesVars, histVars, harnessVars>>

\* result_quad = bilby.run_sampler(..., label="quadratic_test", outdir="output")
Ex3RunSampler ==
    /\ At(24) /\ Done({"result_quad"})
    /\ \E lnZ \in -MaxLnZ..MaxLnZ, c \in 1..MaxChain :
          /\ result_quad' = run_sampler(likelihood, priors, Ex3Label, OutDir, lnZ, c)
          /\ Sampled(result_quad')
    /\ UNCHANGED <<dataVars, result, result_line, columnVars, plotVars, miscVars,
                   bayesVars, harnessVars>>

\* A sequence listing the elements of a set of parameter names, in name order.
KeyOrder == <<"a", "b", "c", "sigma">>
InOrder(S) == SelectSeq(KeyOrder, LAMBDA k : k \in S)

\* result_quad.plot_corner(dpi=150): without truths, every sampled parameter
Ex3PlotCorner ==
    /\ At(25) /\ Done({})
    /\ reads' = reads \o Asked("plot_corner", result_quad, InOrder(result_quad.search_parameter_keys))
    /\ UNCHANGED <<dataVars, setupVars, resultVars, columnVars, plotVars, miscVars,
                   bayesVars, files, calls, harnessVars>>

\* a_vals, b_vals, c_vals = result_quad.posterior["a" / "b" / "c"].values
Ex3Columns == <<"a", "b", "c">>
Ex3ExtractPosterior ==
    /\ At(26)
    /\ a_vals' = Column(result_quad, Ex3Columns, 1, a_vals)
    /\ b_vals' = Column(result_quad, Ex3Columns, 2, b_vals)
    /\ c_vals' = Column(result_quad, Ex3Columns, 3, c_vals)
    /\ reads' = reads \o Asked("posterior", result_quad, Ex3Columns)
    /\ Finish(result_quad, Ex3Columns, <<"a_vals", "b_vals", "c_vals">>)
    /\ UNCHANGED <<dataVars, setupVars, resultVars, sigmas, plotVars, miscVars,
                   bayesVars, files, calls, harnessVars>>

Ex3PlotFit ==
    /\ At(27)
    /\ PlotFit("quadratic", [a |-> a_vals, b |-> b_vals, c |-> c_vals], y_errs)
    /\ UNCHANGED <<dataVars, setupVars, resultVars, columnVars, miscVars, bayesVars,
                   histVars, harnessVars>>

\* a_result, b_result, c_result = result_quad.get_one_dimensional_median_and_error_bar(...)
Ex3SummaryKeys == <<"a", "b", "c">>
Ex3Summary ==
    /\ At(28)
    /\ summary' = Summaries(result_quad, Ex3SummaryKeys, <<"a_result", "b_result", "c_result">>,
                            summary)
    /\ reads' = reads \o Asked("summary", result_quad, Ex3SummaryKeys)
    /\ Finish(result_quad, Ex3SummaryKeys, <<"a_result", "b_result", "c_result">>)
    /\ UNCHANGED <<dataVars, setupVars, resultVars, columnVars, plotVars, truths,
                   bayesVars, files, calls, harnessVars>>

\* bilby.result.read_in_result(filename): the result stored in the file the
\* path opens; an IOError when there is none.
Stored(path) == {f \in DOMAIN files : Opens(path, f)}
read_in_result(path) == files[CHOOSE f \in Stored(path) : TRUE]

\* result_line = bilby.result.read_in_result("./output/line_test_result.json")
ReadLineResult ==
    /\ At(29)
    /\ IF Stored(ReadPath) # {}
       THEN result_line' = read_in_result(ReadPath) /\ Done({"result_line"})
       ELSE result_line' = result_line /\ Raised("IOError", {})
    /\ UNCHANGED <<dataVars, setupVars, result, result_quad, columnVars, plotVars, miscVars,
                   bayesVars, histVars, harnessVars>>

\* lnBF = lnZ_line - lnZ_quad
BayesFactor_swapped(lnZ1, lnZ2) == RSub(lnZ2, lnZ1)
BayesFactor(lnZ1, lnZ2) == RSub(lnZ1, lnZ2)

\* lnZ_line = result_line.log_evidence; lnZ_quad = result_quad.log_evidence;
\* lnBF = lnZ_line - lnZ_quad; print(...)
ComputeBayesFactor ==
    /\ At(30) /\ Done({"lnZ_line", "lnZ_quad", "lnBF"})
    /\ lnZ_line' = result_line.log_evidence
    /\ lnZ_quad' = result_quad.log_evidence
    /\ lnBF' = BayesFactor(lnZ_line', lnZ_quad')
    /\ UNCHANGED <<dataVars, setupVars, resultVars, columnVars, plotVars, miscVars,
                   histVars, harnessVars>>

Next ==
    \/ ImportNumpy \/ ImportBilby \/ HelpCell \/ DefLine \/ MakeFakeData
    \/ Ex1Likelihood \/ Ex1Priors \/ Ex1RunSampler \/ Ex1PlotCorner
    \/ Ex1ExtractPosterior \/ Ex1PlotFit \/ Ex1Summary
    \/ DefCustomGaussianLikelihood \/ Ex2Setup \/ Ex2RunSampler \/ Ex2PlotCorner
    \/ Ex2ExtractPosterior \/ Ex2PlotFit \/ Ex2Summary
    \/ DefQuadratic \/ Ex3Setup \/ Ex3RunSampler \/ Ex3PlotCorner
    \/ Ex3ExtractPosterior \/ Ex3PlotFit \/ Ex3Summary
    \/ ReadLineResult \/ ComputeBayesFactor

Spec == Init /\ [][Next]_vars

(***************************************************************************)
(* The notebook-level names each code cell reads and binds, statement by   *)
(* statement in the order the cell runs them                               *)
(***************************************************************************)
Stmt(read, bind) == [reads |-> read, binds |-> bind]

\* The statements of a posterior-predictive plot cell for the model function
\* func over the columns cols, with the extra names the error bars read.
PlotCode(func, cols, extra) ==
    <<Stmt({"np"}, {"xfit"}),
      Stmt({func, "xfit", "np"} \cup cols, {"med_model"}),
      Stmt({"plt", "x", "data", "y_errs"} \cup extra, {}),
      Stmt({}, {"i"}),
      Stmt({func, "xfit", "i"} \cup cols, {"instance"}),
      Stmt({"plt", "xfit", "instance"}, {}),
      Stmt({"plt", "xfit", "med_model"}, {}),
      Stmt({"plt", "x", "y"}, {})>>

\* name = result.get_one_dimensional_median_and_error_bar(key), one per name,
\* then the prints of the names.
SummaryCode(res, names) ==
    [i \in 1..Len(names) |-> Stmt({res}, {names[i]})] \o
    [i \in 1..Len(names) |-> Stmt({names[i]}, {})]

\* priors = dict(); priors[key] = bilby.prior.Uniform(...), one per key
PriorsCode(keys) ==
    <<Stmt({}, {"priors"})>> \o [i \in 1..keys |-> Stmt({"priors", "bilby"}, {})]

CellCode(k) ==
    CASE k = 1 -> <<Stmt({}, {"np"}), Stmt({}, {"plt"})>>
      [] k = 2 -> <<Stmt({}, {"bilby"})>>
      [] k \in {3, 6, 9} -> <<Stmt({"bilby"}, {})>>
      [] k = 4 -> <<Stmt({}, {"line"})>>
      [] k = 5 -> <<Stmt({"np"}, {}), Stmt({}, {"n"}), Stmt({"np", "n"}, {"x"}),
                    Stmt({"line", "x"}, {"y"}), Stmt({"np", "n"}, {"y_errs"}),
                    Stmt({"np", "n"}, {"noise"}), Stmt({"y", "noise"}, {"data"}),
                    Stmt({"plt", "x", "data", "y_errs"}, {}), Stmt({"plt", "x", "y"}, {})>>
      [] k = 7 -> <<Stmt({"bilby", "x", "data", "line", "y_errs"}, {"likelihood"})>>
      [] k = 8 -> PriorsCode(2)
      [] k = 10 -> <<Stmt({"bilby", "likelihood", "priors"}, {"result"})>>
      [] k \in {11, 18} -> <<Stmt({}, {"truths"}), Stmt({"result", "truths"}, {})>>
      [] k = 12 -> <<Stmt({"result"}, {"a_vals"}), Stmt({"result"}, {"c_vals"})>>
      [] k = 13 -> PlotCode("line", {"a_vals", "c_vals"}, {})
      [] k = 14 -> SummaryCode("result", <<"a_result", "c_result">>)
      [] k = 15 -> <<Stmt({"bilby"}, {"CustomGaussianLikelihood"})>>
      [] k = 16 -> <<Stmt({}, {"parameters"}),
                     Stmt({"CustomGaussianLikelihood", "x", "y", "y_errs", "line",
                           "parameters"}, {"likelihood"})>> \o PriorsCode(3)
      \* log_likelihood, called by the sampler, reads the global np
      [] k = 17 -> <<Stmt({"bilby", "likelihood", "priors", "np"}, {"result"})>>
      [] k = 19 -> <<Stmt({"result"}, {"a_vals"}), Stmt({"result"}, {"c_vals"}),
                     Stmt({"result"}, {"sigmas"})>>
      [] k = 20 -> PlotCode("line", {"a_vals", "c_vals"}, {"np", "sigmas"})
      [] k = 21 -> SummaryCode("result", <<"a_result", "c_result", "sigma_result">>)
      [] k = 22 -> <<Stmt({}, {"quadratic"})>>
      [] k = 23 -> <<Stmt({"bilby", "x", "data", "quadratic", "y_errs"}, {"likelihood"})>>
                   \o PriorsCode(3)
      [] k = 24 -> <<Stmt({"bilby", "likelihood", "priors"}, {"result_quad"})>>
      [] k = 25 -> <<Stmt({"result_quad"}, {})>>
      [] k = 26 -> <<Stmt({"result_quad"}, {"a_vals"}), Stmt({"result_quad"}, {"b_vals"}),
                     Stmt({"result_quad"}, {"c_vals"})>>
      [] k = 27 -> PlotCode("quadratic", {"a_vals", "b_vals", "c_vals"}, {})
      [] k = 28 -> SummaryCode("result_quad", <<"a_result", "b_result", "c_result">>)
      [] k = 29 -> <<Stmt({"bilby"}, {"result_line"})>>
      [] k = 30 -> <<Stmt({"result_line"}, {"lnZ_line"}), Stmt({"result_quad"}, {"lnZ_quad"}),
                     Stmt({"lnZ_line", "lnZ_quad"}, {"lnBF"}), Stmt({"lnBF"}, {})>>
      [] OTHER -> <<>>

\* The names cell k binds, and the names it reads that no earlier statement
\* of the same cell has bound.
Binds(k) == UNION {CellCode(k)[i].binds : i \in 1..Len(CellCode(k))}
FreeReads(k) ==
    UNION {CellCode(k)[i].reads \ UNION {CellCode(k)[j].binds : j \in 1..(i - 1)} :
           i \in 1..Len(CellCode(k))}

(***************************************************************************)
(* Direct calls of the two model functions on integers                     *)
(***************************************************************************)
ArgValues == -MaxArg..MaxArg

InitFn ==
    /\ pc = 0 /\ Fresh
    /\ likelihood = Unset /\ parameters = Unset
    /\ args \in [x : ArgValues, a : ArgValues, b : ArgValues, c : ArgValues]
    /\ ret = NoCall

\* line(x, a, c)
CallLine ==
    /\ pc = 0
    /\ ret' = [fn |-> "line", val |-> line(RInt(args.x), RInt(args.a), RInt(args.c))]
    /\ UNCHANGED <<notebookVars, args>>

\* quadratic(x, a, b, c)
CallQuadratic ==
    /\ pc = 0
    /\ ret' = [fn |-> "quadratic",
               val |-> quadratic(RInt(args.x), RInt(args.a), RInt(args.b), RInt(args.c))]
    /\ UNCHANGED <<notebookVars, args>>

NextFn == CallLine \/ CallQuadratic

SpecFn == InitFn /\ [][NextFn]_vars

(***************************************************************************)
(* Direct calls of CustomGaussianLikelihood.log_likelihood: an object over *)
(* a small data set, whose parameters a sampler sets between the calls     *)
(***************************************************************************)
Points == 1..HarnessPoints
IntArr(f) == Arr([i \in Points |-> RInt(f[i])])

InitLike ==
    /\ pc = 0 /\ Fresh
    /\ parameters = Ex2Parameters
    /\ \E ys \in [Points -> 0..1], errs \in [Points -> 0..MaxErr] :
          likelihood = CustomGaussianLikelihood(IntArr([i \in Points |-> i - 1]), IntArr(ys),
                                                IntArr(errs), "line", parameters)
    /\ args = Unset /\ ret = NoCall

\* The sampler writes the next point into the parameters dict the object holds.
SetParameters ==
    /\ pc = 0
    /\ \E a \in 0..1, c \in {1}, sig \in -MaxSig..MaxSig :
          parameters' = [a |-> RInt(a), c |-> RInt(c), sigma |-> RInt(sig)]
    /\ likelihood' = [likelihood EXCEPT !.parameters = parameters']
    /\ ret' = NoCall
    /\ UNCHANGED <<pc, error, bound, dataVars, priors, resultVars, columnVars, plotVars,
                   miscVars, bayesVars, histVars, args>>

\* likelihood.log_likelihood(): a TypeError while a parameter is still None.
CallLogLikelihood ==
    /\ pc = 0
    /\ IF ParametersSet(likelihood)
       THEN /\ likelihood' = log_likelihood(likelihood).self
            /\ ret' = [fn |-> "log_likelihood", raised |-> FALSE,
                       val |-> log_likelihood(likelihood).val]
       ELSE /\ likelihood' = likelihood
            /\ ret' = [fn |-> "log_likelihood", raised |-> TRUE]
    /\ UNCHANGED <<pc, error, bound, dataVars, priors, parameters, resultVars, columnVars,
                   plotVars, miscVars, bayesVars, histVars, args>>

NextLike == SetParameters \/ CallLogLikelihood

SpecLike == InitLike /\ [][NextLike]_vars

(***************************************************************************)
(* Properties                                                              *)
(***************************************************************************)

\* C1: for all integers x, a, c in the bounded set, line(x, a, c) returns
\* exactly a*x + c.
C1_LineIsAxPlusC ==
    ret.fn = "line" => ret.val = RInt(args.a * args.x + args.c)
C1_Witness ==
    /\ ret.fn = "line" /\ args.x < 0 /\ args.a > 1 /\ args.c > 0
    /\ ret.val = RInt(args.a * args.x + args.c)

\* C2: for all integers x, a, b, c in the bounded set, quadratic(x, a, b, c)
\* returns exactly a*x*x + b*x + c, and with a = 0 it equals line(x, b, c).
C2_QuadraticIsAx2PlusBxPlusC ==
    ret.fn = "quadratic" =>
        /\ ret.val = RInt(args.a * args.x * args.x + args.b * args.x + args.c)
        /\ args.a = 0 => ret.val = line(RInt(args.x), RInt(args.b), RInt(args.c))
C2_Witness ==
    /\ ret.fn = "quadratic" /\ args.x = -2 /\ args.a = 1 /\ args.b = 1 /\ args.c = 1
    /\ ret.val = RInt(3)

\* C3: once the data cell has run, x has exactly n = 10 evenly spaced points
\* from -10 to 10 inclusive (x_i = -10 + 20*(i-1)/9), every truth value
\* satisfies 2*y_i = x_i + 2, and data is the separate array y + noise: y
\* itself stays the noise-free curve.
C3_TruthCurve ==
    pc > 5 =>
        /\ n = 10 /\ Size(x) = n /\ Size(y) = n /\ Size(data) = n
        /\ x.arr[1] = RInt(-10) /\ x.arr[n] = RInt(10)
        /\ \A i \in 1..n : 9 * x.arr[i].n = (20 * (i - 1) - 90) * x.arr[i].d
        /\ \A i \in 1..(n - 1) :
              RSub(x.arr[i + 1], x.arr[i]) = RSub(x.arr[2], x.arr[1])
        /\ \A i \in 1..n :
              2 * y.arr[i].n * x.arr[i].d = (x.arr[i].n + 2 * x.arr[i].d) * y.arr[i].d
        /\ \A i \in 1..n : data.arr[i] = RAdd(y.arr[i], noise.arr[i])
C3_Witness ==
    /\ pc > 5 /\ Size(y) = 10 /\ data # y
    /\ \E i \in 1..n : noise.arr[i] # RInt(0)

\* C4: the log Bayes factor is lnZ of the run labelled line_test (the linear
\* fit, the first run) minus lnZ of the run labelled quadratic_test (the
\* quadratic fit, the third run); it is positive, zero or negative as the
\* linear log-evidence is larger, equal or smaller; swapping the two models
\* negates it; the evidence of the second (custom-likelihood) run is no part
\* of it.
C4_LogBayesFactor ==
    pc > 30 =>
        LET run1 == calls[1]
            run3 == calls[3]
            z1 == run1.result.log_evidence.n
            z3 == run3.result.log_evidence.n
        IN  /\ run1.label = "line_test" /\ run1.likelihood.func = "line"
            /\ run1.likelihood.cls = "GaussianLikelihood"
            /\ run3.label = "quadratic_test" /\ run3.likelihood.func = "quadratic"
            /\ lnZ_line = run1.result.log_evidence /\ lnZ_quad = run3.result.log_evidence
            /\ lnBF = RInt(z1 - z3)
            /\ (lnBF.n > 0) <=> (z1 > z3)
            /\ (lnBF.n = 0) <=> (z1 = z3)
            /\ BayesFactor(lnZ_quad, lnZ_line) = RInt(-(z1 - z3))
C4_Witness ==
    /\ pc > 30 /\ lnBF.n > 0
    /\ calls[2].result.log_evidence # calls[1].result.log_evidence
    /\ calls[2].result.log_evidence # calls[3].result.log_evidence

\* C5: the file of every sampler run still holds that run's result (no later
\* run overwrites it, the labels being pairwise distinct in one output
\* directory), and once the read-back cell has run, result_line is the result
\* the Example 1 run (cell 10, label line_test) persisted.
C5_ReadBackIsExample1 ==
    /\ \A k \in 1..Len(calls) :
          /\ ResultFile(calls[k].outdir, calls[k].label) \in DOMAIN files
          /\ files[ResultFile(calls[k].outdir, calls[k].label)] = calls[k].result
    /\ \A j, k \in 1..Len(calls) :
          /\ calls[j].outdir = calls[k].outdir
          /\ j # k => calls[j].label # calls[k].label
    /\ pc > 29 =>
          /\ Len(calls) = 3
          /\ calls[1].cell = 10 /\ calls[1].label = "line_test"
          /\ <<calls[1].label, calls[2].label, calls[3].label>>
                = <<"line_test", "custom_priors", "quadratic_test">>
          /\ result_line = calls[1].result
C5_Witness ==
    /\ pc > 29 /\ error = "none"
    /\ result_line = calls[1].result
    /\ result_line # result /\ result_line # result_quad

\* C6: at each of the three run_sampler calls the keys of the priors passed in
\* are exactly the parameters the likelihood passed in evaluates: {a, c},
\* then {a, c, sigma}, then {a, b, c}.
C6_PriorsMatchLikelihood ==
    /\ \A k \in 1..Len(calls) :
          DOMAIN calls[k].priors = EvaluatedParameters(calls[k].likelihood)
    /\ Len(calls) >= 1 => DOMAIN calls[1].priors = {"a", "c"}
    /\ Len(calls) >= 2 => DOMAIN calls[2].priors = {"a", "c", "sigma"}
    /\ Len(calls) >= 3 => DOMAIN calls[3].priors = {"a", "b", "c"}
C6_Witness ==
    /\ Len(calls) = 3
    /\ "sigma" \in DOMAIN calls[2].priors /\ "sigma" \notin DOMAIN calls[3].priors

C8_Example2FitsSameData ==
    Len(calls) >= 2 =>
        /\ calls[2].likelihood.cls = "CustomGaussianLikelihood"
        /\ calls[2].likelihood.x = calls[1].likelihood.x
        /\ calls[2].likelihood.y_err = calls[1].likelihood.sigma
        /\ calls[2].likelihood.y = calls[1].likelihood.y

\* C9: after the data cell no step changes x, y, data or y_errs, and the
\* likelihoods of the first and third run hold identical x, data and sigma
\* arrays, those of the data cell.
C9_SameDataRefitted ==
    /\ [](Len(calls) >= 3 =>
            /\ calls[3].likelihood.x = calls[1].likelihood.x
            /\ calls[3].likelihood.y = calls[1].likelihood.y
            /\ calls[3].likelihood.sigma = calls[1].likelihood.sigma
            /\ calls[1].likelihood.x = x
            /\ calls[1].likelihood.y = data
            /\ calls[1].likelihood.sigma = y_errs)
    /\ [][pc > 5 => (x' = x /\ y' = y /\ data' = data /\ y_errs' = y_errs)]_vars
C9_Witness ==
    /\ pc > 30 /\ Len(calls) = 3 /\ data # y
    /\ calls[3].likelihood.y = data /\ calls[3].likelihood.func = "quadratic"

\* C10: after log_likelihood, the variance of every point, sigma_i^2, is
\* y_err_i^2 + sigma_Q^2 with sigma_Q = parameters["sigma"]: never below
\* y_err_i^2, equal to it exactly when sigma_Q = 0, and the same for sigma_Q
\* and -sigma_Q.
C10_InflatedVariance ==
    (ret.fn = "log_likelihood" /\ ~ret.raised) =>
        LET sQ == likelihood.parameters["sigma"]
            flipped == [likelihood EXCEPT !.parameters["sigma"] = RNeg(sQ)]
        IN  /\ \A i \in 1..Size(likelihood.y_err) :
                  LET e == likelihood.y_err.arr[i]
                      var == RPow(likelihood.sigma.arr[i], 2)
                  IN  /\ var = RInt(e.n * e.n + sQ.n * sQ.n)
                      /\ var.n >= e.n * e.n
                      /\ (var = RInt(e.n * e.n)) <=> (sQ.n = 0)
            /\ Sigma(flipped) = likelihood.sigma
C10_Witness ==
    /\ ret.fn = "log_likelihood" /\ ~ret.raised
    /\ likelihood.parameters["sigma"] = RInt(-1)
    /\ likelihood.y_err.arr[1] = RInt(2)
    /\ likelihood.sigma.arr[1] = RSqrt(RInt(5))

\* C11: log_likelihood returns the sum over the data points i of
\* -(y_i - func(x_i, a, c))^2 / (2*sigma_i^2) - ln(2*pi*sigma_i^2)/2 with
\* sigma_i^2 = y_err_i^2 + sigma_Q^2 and a, c, sigma_Q read from parameters:
\* exactly one term per data point, the model evaluated at that point's x_i.
C11_GaussianLogLikelihood ==
    (ret.fn = "log_likelihood" /\ ~ret.raised) =>
        LET a == likelihood.parameters["a"].n
            c == likelihood.parameters["c"].n
            sQ == likelihood.parameters["sigma"].n
            N == Size(likelihood.x)
            var(i) == likelihood.y_err.arr[i].n * likelihood.y_err.arr[i].n + sQ * sQ
            dev(i) == likelihood.y.arr[i].n - (a * likelihood.x.arr[i].n + c)
            terms == [i \in 1..N |-> Rat(-(dev(i) * dev(i)), 2 * var(i))]
        IN  /\ Size(likelihood.y) = N /\ Len(ret.val.logs) = N
            /\ \A i \in 1..N :
                  ret.val.logs[i] = [coef |-> Rat(-1, 2), arg |-> RInt(2 * var(i))]
            /\ (\A i \in 1..N : var(i) > 0) => ret.val.quad = SumTo(terms, N)
C11_Witness ==
    /\ ret.fn = "log_likelihood" /\ ~ret.raised
    /\ likelihood.parameters["a"] = RInt(1) /\ likelihood.parameters["sigma"] = RInt(1)
    /\ likelihood.y.arr[1] = RInt(0) /\ likelihood.y.arr[2] = RInt(1)
    /\ likelihood.y_err.arr[1] = RInt(1) /\ likelihood.y_err.arr[2] = RInt(2)
    /\ ret.val.quad = Rat(-7, 20)
    /\ ret.val.logs[2].arg = RInt(10)

\* C12: once the Example 2 plot cell has drawn its error bars, the bar of
\* every data point i is sqrt(y_err_i^2 + m^2) with m the median of the
\* posterior sigma samples, whatever the number of samples.
C12_ErrorBarsUseMedianSigma ==
    ((pc = 21 /\ error = "none") \/ (pc = 20 /\ error = "IndexError")) =>
        LET m == median(sigmas)
        IN  /\ Size(fig.errorbar.yerr) = n
            /\ \A i \in 1..n :
                  fig.errorbar.yerr.arr[i] = RSqrt(RAdd(RPow(y_errs.arr[i], 2), RPow(m, 2)))

\* C13: a posterior-predictive loop that completes has plotted exactly 25
\* curves, curve i drawn with a, c (and b for the quadratic) all of row i of
\* the posterior of that example's result, and it completes only when that
\* posterior has at least 25 rows; with fewer rows it stops with IndexError
\* after one curve per existing row.
C13_CurvesFromOneRow ==
    LET PosteriorRow(res, keys, i) == [k \in keys |-> PosteriorValues(res, k).arr[i]]
        Completed(res, keys) ==
            /\ error = "none"
            /\ res.nrows >= NDraws
            /\ Len(fig.curves) = NDraws
            /\ \A i \in 1..NDraws : fig.curves[i] = PosteriorRow(res, keys, i)
        last(res, k) == PosteriorValues(res, k).arr[NDraws]
    IN  /\ pc \in {14, 21} =>
              /\ Completed(result, {"a", "c"})
              /\ instance = line(xfit, last(result, "a"), last(result, "c"))
        /\ pc = 28 =>
              /\ Completed(result_quad, {"a", "b", "c"})
              /\ instance = quadratic(xfit, last(result_quad, "a"), last(result_quad, "b"),
                                      last(result_quad, "c"))
        /\ error = "IndexError" =>
              LET res == IF pc = 27 THEN result_quad ELSE result
              IN  /\ pc \in {13, 20, 27}
                  /\ res.nrows < NDraws
                  /\ Len(fig.curves) = res.nrows
C13_Witness ==
    /\ pc = 28 /\ error = "none"
    /\ Len(fig.curves) = 25 /\ result_quad.nrows = 25
    /\ fig.curves[25] = [a |-> a_vals.arr[25], b |-> b_vals.arr[25], c |-> c_vals.arr[25]]
    /\ fig.curves[2].c # fig.curves[1].c
    /\ fig.curves[2].b # fig.curves[1].b

\* C14: a call of log_likelihood leaves the object's x, y, y_err, func and
\* parameters (and the dict parameters refers to) as they were; the only
\* attributes that may differ after the call are sigma, model and residual,
\* which a call that returns has assigned.
C14_LogLikelihoodFrame ==
    [][ret'.fn = "log_likelihood" =>
          /\ DOMAIN likelihood' = DOMAIN likelihood
          /\ \A f \in (DOMAIN likelihood) \ {"sigma", "model", "residual"} :
                likelihood'[f] = likelihood[f]
          /\ parameters' = parameters
          /\ ~ret'.raised =>
                /\ likelihood'.sigma = Sigma(likelihood)
                /\ likelihood'.model = Model(likelihood)
                /\ likelihood'.residual = Residual(likelihood, Model(likelihood))]_vars
C14_Witness ==
    /\ ret.fn = "log_likelihood" /\ ~ret.raised
    /\ likelihood.parameters = parameters /\ parameters["a"] = RInt(1)
    /\ likelihood.func = "line"
    /\ likelihood.x.arr[2] = RInt(1) /\ likelihood.y.arr[2] = RInt(0)
    /\ likelihood.y_err.arr[2] = RInt(2)
    /\ likelihood.model.arr[2] = RInt(2) /\ likelihood.residual.arr[2] = RInt(4)
    /\ likelihood.sigma.arr[2] = RSqrt(RInt(4))

\* C15: with the cells run in document order, every name a cell reads has
\* been bound by an earlier cell or earlier in the same cell (a completed
\* cell having bound exactly the names its statements assign), and every
\* run_sampler call is passed the likelihood and priors as they are bound at
\* the call: those its own example's setup cell built, not the previous
\* example's.
C15_NamesBoundBeforeUse ==
    /\ [](error = "none" => FreeReads(pc) \subseteq bound)
    /\ [][pc' = pc + 1 => bound' = bound \cup Binds(pc)]_vars
    /\ [][Len(calls') = Len(calls) + 1 =>
            /\ calls'[Len(calls')].likelihood = likelihood
            /\ calls'[Len(calls')].priors = priors]_vars
    /\ [](\A k \in 1..Len(calls) :
            /\ calls[k].cell = 3 + 7 * k
            /\ k = 1 =>
                  /\ calls[k].likelihood = GaussianLikelihood(x, data, "line", y_errs)
                  /\ calls[k].priors = [a |-> Uniform(0, 1, "a"), c |-> Uniform(0, 4, "c")]
            /\ k = 2 =>
                  /\ calls[k].likelihood =
                        CustomGaussianLikelihood(x, y, y_errs, "line",
                                                 [a |-> None, c |-> None, sigma |-> None])
                  /\ calls[k].priors = [a |-> Uniform(0, 1, "a"), c |-> Uniform(0, 4, "c"),
                                        sigma |-> Uniform(0, 1, "sigma")]
            /\ k = 3 =>
                  /\ calls[k].likelihood = GaussianLikelihood(x, data, "quadratic", y_errs)
                  /\ calls[k].priors = [a |-> Uniform(-2, 2, "a"), b |-> Uniform(-2, 2, "b"),
                                        c |-> Uniform(-2, 2, "c")]
            /\ k > 1 =>
                  /\ calls[k].likelihood # calls[k - 1].likelihood
                  /\ calls[k].priors # calls[k - 1].priors)
C15_Witness ==
    /\ pc = 31 /\ error = "none" /\ Len(calls) = 3
    /\ FreeReads(30) = {"result_line", "result_quad"}
    /\ {"result_line", "result_quad", "lnZ_line", "lnZ_quad", "quadratic", "sigmas"}
          \subseteq bound
    /\ calls[2].likelihood.cls = "CustomGaussianLikelihood"
    /\ calls[3].likelihood.func = "quadratic" /\ "b" \in DOMAIN calls[3].priors

====
